---- MODULE Spec2Model ----
(***************************************************************************)
(* A model of the rtp-player front end: the playlist and EPG parsers, the  *)
(* gap-fill synthesizer (generateFallbackPrograms), the App component and  *)
(* the PlayerPage controller (seek clamping, segment selection, current    *)
(* program resolution).  Times are Date.getTime() values in milliseconds.  *)
(***************************************************************************)
EXTENDS Integers, Sequences, FiniteSets, TLC

VARIABLES
    \* ---- gap-fill harness (generateFallbackPrograms as a pure function) ----
    gfExisting,      \* existingPrograms handed to the call
    gfNow,           \* the value of `new Date()` inside the call
    gfFallback,      \* the returned fallbackPrograms
    gfCombined,      \* [...programs, ...fallback].sort(by start)
    gfPass,          \* how many passes have run (0, 1, 2)
    \* ---- shared by the two components ----
    wallClock,       \* the wall clock, what `new Date()` returns
    op,              \* the handler, effect or callback that ran last
    lastChannelId,   \* localStorage: getLastChannelId()
    \* ---- the App component (App.tsx 19-177) ----
    appChannels,     \* useM3ULoader: channels
    appEpgData,      \* useEPGLoader: epgData, [loaded, data]; loaded = FALSE is null
    playerState,     \* [currentChannel, playMode, currentTime]
    currentPlayingProgram,
    appPending,      \* effects whose dependencies changed and that have not run yet
    appLookup,       \* locals of the last run of the current-program effect
    \* ---- the PlayerPage component (App.tsx 239-800) ----
    metadata,        \* M3UMetadata | null
    epgData,         \* EPGData, {} at first
    currentChannel,  \* Channel | null
    playMode,        \* "live" | "catchup"
    playbackSegments,
    streamStartTime,
    currentVideoTime,    \* seconds since the stream started
    catchupTailOffset,   \* seconds
    customM3uUrl,
    error,
    loads,           \* playlist fetches and EPG loads in flight
    pagePending,     \* effects whose dependencies changed and that have not run yet
    pageOp,          \* the handler, effect or callback that ran last, with its inputs
    loadCount,       \* how many times loadPlaylist has been called
    metadataFrom,    \* the loadPlaylist call whose playlist is in metadata
    epgFrom,         \* the loadPlaylist call whose EPG result is in epgData
    \* parseM3U applied to a playlist text, and to the text less one line
    plText,          \* the playlist text, a sequence of lines
    plResult,        \* parseM3U(plText)
    plCut,           \* the position of the line taken out, 0 before that
    plCutResult,     \* parseM3U of the text without that line
    plStage,         \* "text", "parsed", "cut"
    \* parseEPG applied to a document, and the merge with fallback programs
    epDoc,           \* the document, a sequence of programme elements
    epIndex,         \* what parseEPG returned
    epKey,           \* the channel key whose list was merged
    epMerged,        \* that list merged with its fallback programs
    epStage          \* "doc", "parsed", "merged"

gfVars == <<gfExisting, gfNow, gfFallback, gfCombined, gfPass>>

appVars == <<appChannels, appEpgData, playerState, currentPlayingProgram,
             appPending, appLookup>>

sharedVars == <<wallClock, op, lastChannelId>>

loadVars == <<loadCount, metadataFrom, epgFrom>>

pageVars == <<metadata, epgData, currentChannel, playMode, playbackSegments,
              streamStartTime, currentVideoTime, catchupTailOffset,
              customM3uUrl, error, loads, pagePending, pageOp, loadVars>>

plVars == <<plText, plResult, plCut, plCutResult, plStage>>

epVars == <<epDoc, epIndex, epKey, epMerged, epStage>>

parserVars == <<plVars, epVars>>

vars == <<gfVars, sharedVars, appVars, pageVars, parserVars>>

-----------------------------------------------------------------------------
(* Time constants of the source *)

HOUR_MS == 60 * 60 * 1000
TWO_HOURS_MS == 2 * 60 * 60 * 1000
MIN_MS == 60 * 1000

\* the lookbackHours default, and the argument App passes
LookbackHours == 48

\* the fixed title of a synthetic entry
FALLBACK_TITLE == "fallback-title"

-----------------------------------------------------------------------------
(* EPGProgram values: {id, title, start, end} *)

Program(id, title, start, end) ==
    [id |-> id, title |-> title, start |-> start, end |-> end]

\* getTime() of an Invalid Date (every instant of the model is positive)
NaN == -1

\* a < b and a <= b on numbers and dates: false when either side is NaN
Lt(a, b) == a # NaN /\ b # NaN /\ a < b
Le(a, b) == a # NaN /\ b # NaN /\ a <= b

\* Array.prototype.sort((a, b) => a.start - b.start): a stable sort by start
\* (a difference that is NaN counts as 0)
RECURSIVE InsertByStart(_, _)
InsertByStart(p, s) ==
    IF s = <<>> THEN <<p>>
    ELSE IF Lt(p.start, Head(s).start) THEN <<p>> \o s
    ELSE <<Head(s)>> \o InsertByStart(p, Tail(s))

RECURSIVE SortByStart(_)
SortByStart(s) ==
    IF s = <<>> THEN <<>>
    ELSE InsertByStart(s[Len(s)], SortByStart(SubSeq(s, 1, Len(s) - 1)))

-----------------------------------------------------------------------------
(* JavaScript values *)

\* undefined, and a string no regular expression captured
Undefined == ""

\* a || b on strings
Or(a, b) == IF a # Undefined THEN a ELSE b

\* null for a Channel, for an EPGProgram, for the M3UMetadata
NoChannel == [null |-> TRUE]
NoProgram == [null |-> TRUE]
NoMetadata == [null |-> TRUE]

\* a channel that can be time-shifted: the negation of
\* !channel.catchup || !channel.catchupSource
CatchupCapable(channel) ==
    channel.catchup # Undefined /\ channel.catchupSource # Undefined

\* epgData[key] || []
ProgramsOf(epg, key) ==
    IF key \in DOMAIN epg THEN epg[key] ELSE <<>>

\* FindCovering with the end of an entry included (p.end >= t)
RECURSIVE FindCovering_InclusiveEnd(_, _)
FindCovering_InclusiveEnd(programs, t) ==
    IF programs = <<>> THEN NoProgram
    ELSE IF Head(programs).start <= t /\ Head(programs).end >= t
         THEN Head(programs)
         ELSE FindCovering_InclusiveEnd(Tail(programs), t)

\* Array.prototype.find(pred) || null over a list of programs, for the
\* predicate p.start <= t && p.end > t
RECURSIVE FindCovering(_, _)
FindCovering(programs, t) ==
    IF programs = <<>> THEN NoProgram
    ELSE IF Le(Head(programs).start, t) /\ Lt(t, Head(programs).end)
         THEN Head(programs)
         ELSE FindCovering(Tail(programs), t)

-----------------------------------------------------------------------------
(* parseM3U.  A playlist text is a sequence of lines; a line is what the    *)
(* parser's tests and regular expressions read from it.                     *)

BlankLine == [kind |-> "blank"]
CommentLine == [kind |-> "comment"]
ExtM3ULine(tvgUrl) == [kind |-> "EXTM3U", tvgUrl |-> tvgUrl]
UrlLine(url) == [kind |-> "url", url |-> url]
ExtInfLine(tvgId, tvgName, logo, group, catchup, catchupSource, name) ==
    [kind |-> "EXTINF", tvgId |-> tvgId, tvgName |-> tvgName, logo |-> logo,
     group |-> group, catchup |-> catchup, catchupSource |-> catchupSource,
     name |-> name]

\* currentMeta = {}
EmptyMeta ==
    [tvgId |-> Undefined, tvgName |-> Undefined, logo |-> Undefined,
     group |-> Undefined, catchup |-> Undefined, catchupSource |-> Undefined,
     name |-> Undefined]

\* the EXTINF branch: currentMeta reset, then one field per matching regex
MetaOfLine(line) ==
    [tvgId |-> line.tvgId, tvgName |-> line.tvgName, logo |-> line.logo,
     group |-> line.group, catchup |-> line.catchup,
     catchupSource |-> line.catchupSource, name |-> line.name]

\* the EXTINF branch without `currentMeta = {}`: a field the line does not
\* set keeps the value of the pending record
ExtInfMeta_NoReset(currentMeta, line) ==
    [tvgId |-> Or(line.tvgId, currentMeta.tvgId),
     tvgName |-> Or(line.tvgName, currentMeta.tvgName),
     logo |-> Or(line.logo, currentMeta.logo),
     group |-> Or(line.group, currentMeta.group),
     catchup |-> Or(line.catchup, currentMeta.catchup),
     catchupSource |-> Or(line.catchupSource, currentMeta.catchupSource),
     name |-> Or(line.name, currentMeta.name)]

\* currentMeta after the EXTINF branch: the pending record is dropped and
\* replaced by the fields of the line
ExtInfMeta(currentMeta, line) ==
    MetaOfLine(line)

\* ChannelOf without the "Default" group
ChannelOf_NoDefaultGroup(currentMeta, url, count) ==
    [id |-> Or(currentMeta.tvgId,
               Or(currentMeta.name, "channel-" \o ToString(count))),
     name |-> Or(currentMeta.name, "Channel " \o ToString(count + 1)),
     group |-> currentMeta.group,
     url |-> url,
     logo |-> currentMeta.logo,
     tvgId |-> currentMeta.tvgId,
     tvgName |-> currentMeta.tvgName,
     catchup |-> currentMeta.catchup,
     catchupSource |-> currentMeta.catchupSource]

\* the Channel completed by a URL line
ChannelOf(currentMeta, url, count) ==
    [id |-> Or(currentMeta.tvgId,
               Or(currentMeta.name, "channel-" \o ToString(count))),
     name |-> Or(currentMeta.name, "Channel " \o ToString(count + 1)),
     group |-> Or(currentMeta.group, "Default"),
     url |-> url,
     logo |-> currentMeta.logo,
     tvgId |-> currentMeta.tvgId,
     tvgName |-> currentMeta.tvgName,
     catchup |-> currentMeta.catchup,
     catchupSource |-> currentMeta.catchupSource]

RECURSIVE ParseLines(_, _, _, _, _)
ParseLines(lines, channels, groups, currentMeta, tvgUrl) ==
    IF lines = <<>>
    THEN [tvgUrl |-> tvgUrl, channels |-> channels, groups |-> groups]
    ELSE LET line == Head(lines)
             rest == Tail(lines)
         IN  CASE line.kind = "blank" ->
                    ParseLines(rest, channels, groups, currentMeta, tvgUrl)
               [] line.kind = "EXTM3U" ->
                    ParseLines(rest, channels, groups, currentMeta,
                               Or(line.tvgUrl, tvgUrl))
               [] line.kind = "EXTINF" ->
                    ParseLines(rest, channels,
                               IF line.group # Undefined
                               THEN groups \cup {line.group} ELSE groups,
                               ExtInfMeta(currentMeta, line), tvgUrl)
               [] line.kind = "comment" ->
                    ParseLines(rest, channels, groups, currentMeta, tvgUrl)
               [] OTHER ->
                    IF currentMeta.name # Undefined
                    THEN ParseLines(rest,
                                    Append(channels,
                                           ChannelOf(currentMeta, line.url,
                                                     Len(channels))),
                                    groups, EmptyMeta, tvgUrl)
                    ELSE ParseLines(rest, channels, groups, currentMeta, tvgUrl)

\* groups is the set the sorted array holds
parseM3U(m3uContent) ==
    ParseLines(m3uContent, <<>>, {}, EmptyMeta, Undefined)

-----------------------------------------------------------------------------
(* parseEPG.  A document is the sequence of its programme elements; a       *)
(* timestamp attribute is absent, or present with the instant that its 14   *)
(* digits denote in local time.                                             *)

Timestamp(t) == [present |-> TRUE, instant |-> t]
NoTimestamp == [present |-> FALSE, instant |-> 0]

\* an attribute whose first 12 characters are not all digits: parseInt gives
\* NaN for a field and new Date(...) is an Invalid Date
InvalidTimestamp == [present |-> TRUE, instant |-> NaN]

Programme(channel, start, stop, title) ==
    [channel |-> channel, start |-> start, stop |-> stop, title |-> title]

\* parseTime, run at wall-clock time clock
parseTime(timeStr, clock) ==
    IF ~timeStr.present THEN clock ELSE timeStr.instant

\* the EPGProgram pushed for one programme element
ProgramOfItem(item, clock) ==
    Program(<<item.channel, parseTime(item.start, clock)>>, item.title,
            parseTime(item.start, clock), parseTime(item.stop, clock))

\* the programme elements of one channel key, in document order
RECURSIVE ItemsOf(_, _, _)
ItemsOf(items, channelId, clock) ==
    IF items = <<>> THEN <<>>
    ELSE IF Head(items).channel = channelId
         THEN <<ProgramOfItem(Head(items), clock)>>
              \o ItemsOf(Tail(items), channelId, clock)
         ELSE ItemsOf(Tail(items), channelId, clock)

parseEPG(xml, clock) ==
    [channelId \in { xml[i].channel : i \in 1..Len(xml) } |->
        SortByStart(ItemsOf(xml, channelId, clock))]

\* the number of programme elements of a document
MaxItems == 3

\* the orders of s
Orders(s) ==
    { [i \in 1..Len(s) |-> s[f[i]]] :
        f \in { g \in [1..Len(s) -> 1..Len(s)] :
                   \A i, j \in 1..Len(s) : i # j => g[i] # g[j] } }

\* insertion sort that looks for the place of p from the end of s
RECURSIVE InsertFromEnd(_, _)
InsertFromEnd(s, p) ==
    IF s = <<>> THEN <<p>>
    ELSE IF Lt(p.start, s[Len(s)].start)
         THEN InsertFromEnd(SubSeq(s, 1, Len(s) - 1), p) \o <<s[Len(s)]>>
         ELSE s \o <<p>>

RECURSIVE SortFromEnd(_)
SortFromEnd(s) ==
    IF s = <<>> THEN <<>>
    ELSE InsertFromEnd(SortFromEnd(SubSeq(s, 1, Len(s) - 1)), s[Len(s)])

\* what sort((a, b) => a.start - b.start) can leave: the stable sort when
\* every start is a number.  When a start is NaN the comparator is not
\* consistent and the order is up to the implementation: any order for the
\* lists of a document; for the longer merged lists, the orders that the two
\* insertion sorts leave.
SortOutcomes(s) ==
    IF \A i \in 1..Len(s) : s[i].start # NaN THEN {SortByStart(s)}
    ELSE IF Len(s) <= MaxItems THEN Orders(s)
    ELSE {SortByStart(s), SortFromEnd(s)}

\* what parseEPG can return
parseEPGOutcomes(xml, clock) ==
    LET keys == { xml[i].channel : i \in 1..Len(xml) }
        lists == UNION { SortOutcomes(ItemsOf(xml, k, clock)) : k \in keys }
    IN  { f \in [keys -> lists] :
            \A k \in keys : f[k] \in SortOutcomes(ItemsOf(xml, k, clock)) }

-----------------------------------------------------------------------------
(* generateFallbackPrograms *)

\* HasOverlap without its second clause (an entry that starts inside the slot
\* and ends after it goes unnoticed)
HasOverlap_NoEndClause(existingPrograms, currentStart, currentEnd) ==
    \E i \in 1..Len(existingPrograms) :
        LET p == existingPrograms[i] IN
            \/ (p.start <= currentStart /\ p.end > currentStart)
            \/ (p.start >= currentStart /\ p.end <= currentEnd)

\* HasOverlap with every comparison strict (an entry that is exactly the slot
\* goes unnoticed)
HasOverlap_Strict(existingPrograms, currentStart, currentEnd) ==
    \E i \in 1..Len(existingPrograms) :
        LET p == existingPrograms[i] IN
            \/ (p.start < currentStart /\ p.end > currentStart)
            \/ (p.start < currentEnd /\ p.end > currentEnd)
            \/ (p.start > currentStart /\ p.end < currentEnd)

\* the three-clause overlap test of one 2-hour slot against the existing
\* programs
HasOverlap(existingPrograms, currentStart, currentEnd) ==
    \E i \in 1..Len(existingPrograms) :
        LET p == existingPrograms[i] IN
            \/ (Le(p.start, currentStart) /\ Lt(currentStart, p.end))
            \/ (Lt(p.start, currentEnd) /\ Le(currentEnd, p.end))
            \/ (Le(currentStart, p.start) /\ Le(p.end, currentEnd))

\* RoundedStart rounding to the hour only
RoundedStart_HourOnly(now, lookbackHours) ==
    LET startTime == now - lookbackHours * 60 * 60 * 1000
        hoursSinceEpoch == startTime \div (60 * 60 * 1000)
    IN  hoursSinceEpoch * 60 * 60 * 1000

\* now - lookbackHours, rounded down to a 2-hour boundary since the epoch
RoundedStart(now, lookbackHours) ==
    LET startTime == now - lookbackHours * 60 * 60 * 1000
        hoursSinceEpoch == startTime \div (60 * 60 * 1000)
        roundedHours == (hoursSinceEpoch \div 2) * 2
    IN  roundedHours * 60 * 60 * 1000

\* one synthetic entry
FallbackProgram(channelId, currentStart) ==
    Program(<<"fallback", channelId, currentStart>>, FALLBACK_TITLE,
            currentStart, currentStart + TWO_HOURS_MS)

\* the while loop: one iteration per 2-hour slot starting before now
RECURSIVE FallbackLoop(_, _, _, _)
FallbackLoop(existingPrograms, channelId, currentStart, now) ==
    IF ~(currentStart < now) THEN <<>>
    ELSE LET currentEnd == currentStart + TWO_HOURS_MS
             rest == FallbackLoop(existingPrograms, channelId, currentEnd, now)
         IN  IF ~HasOverlap(existingPrograms, currentStart, currentEnd)
             THEN <<FallbackProgram(channelId, currentStart)>> \o rest
             ELSE rest

generateFallbackPrograms(existingPrograms, channelId, lookbackHours, now) ==
    FallbackLoop(existingPrograms, channelId,
                 RoundedStart(now, lookbackHours), now)

\* the merge of real and fallback programs, re-sorted by start
MergePrograms(programs, fallback) ==
    SortByStart(programs \o fallback)

-----------------------------------------------------------------------------
(* Inputs: the wall clock at mount, the playlist texts and EPG documents    *)
(* the fetches can return.                                                  *)

\* the wall clock when the component mounts
T0 == 50 * HOUR_MS

\* how far the wall clock advances in a run, in milliseconds
MaxElapsed == 3000

\* the wall clock advances by one of these between two steps
TickSteps == {1000, 2000}

\* a catchup-capable channel with all three identity fields, and a channel
\* with a title only and no catchup
PlaylistTwo ==
    << ExtM3ULine("http://epg/guide.xml.gz"),
       ExtInfLine("a", "b", "logo-a", "News", "default", "http://cs/a", "c"),
       UrlLine("http://x/1"),
       CommentLine,
       ExtInfLine(Undefined, Undefined, Undefined, Undefined, Undefined,
                  Undefined, "d"),
       UrlLine("http://x/2") >>

\* no EPG URL; one channel with catchup mode but no source template, one
\* metadata line without a URL line
PlaylistNoEpg ==
    << ExtM3ULine(Undefined),
       ExtInfLine("e", Undefined, Undefined, "Sport", "append", Undefined, "e1"),
       UrlLine("http://x/3"),
       BlankLine,
       ExtInfLine("f", Undefined, Undefined, "Lost", Undefined, Undefined, "f1") >>

\* three channels, the first two with the same tvg-id
PlaylistThree ==
    << ExtM3ULine(Undefined),
       ExtInfLine("g", Undefined, Undefined, Undefined, Undefined, Undefined,
                  "g1"),
       UrlLine("http://x/4"),
       ExtInfLine("g", Undefined, Undefined, Undefined, Undefined, Undefined,
                  "g2"),
       UrlLine("http://x/5"),
       ExtInfLine(Undefined, Undefined, Undefined, Undefined, Undefined,
                  Undefined, "h"),
       UrlLine("http://x/6") >>

\* a playlist without channels
PlaylistEmpty ==
    << ExtM3ULine(Undefined), CommentLine >>

PlaylistTexts == {PlaylistTwo, PlaylistNoEpg, PlaylistThree, PlaylistEmpty}

\* key "a", in reverse document order; P2 ends 1 s after mount
DocReversed ==
    << Programme("a", Timestamp(T0 + 1000), Timestamp(T0 + HOUR_MS), "P3"),
       Programme("a", Timestamp(T0 - HOUR_MS), Timestamp(T0 + 1000), "P2"),
       Programme("a", Timestamp(T0 - 2 * HOUR_MS), Timestamp(T0 - HOUR_MS), "P1") >>

\* key "a", two programmes on air at the same time
DocOverlap ==
    << Programme("a", Timestamp(T0 - 2 * HOUR_MS), Timestamp(T0 + HOUR_MS), "Long"),
       Programme("a", Timestamp(T0 - HOUR_MS), Timestamp(T0 + HOUR_MS), "P2") >>

\* the guide knows the first channel by its tvg-name only
DocByName ==
    << Programme("b", Timestamp(T0 - HOUR_MS), Timestamp(T0 + HOUR_MS), "Pb") >>

\* the guide knows the first channel by its title only
DocByTitle ==
    << Programme("c", Timestamp(T0 - HOUR_MS), Timestamp(T0 + HOUR_MS), "Pc") >>

EpgDocs == {DocReversed, DocOverlap, DocByName, DocByTitle}

\* what localStorage holds for the last channel when the page opens
LastChannelIds == {Undefined, "a", "gone"}

-----------------------------------------------------------------------------
(* The App component *)

\* the locals of the current-program effect before it has run
NoLookup ==
    [ran |-> FALSE, channelId |-> Undefined, time |-> 0,
     updatedEpgData |-> <<>>]

\* useState initial values, after the mount effects have run
AppIdle ==
    /\ op = "mount"
    /\ appChannels = <<>>
    /\ appEpgData = [loaded |-> FALSE, data |-> <<>>]
    /\ playerState = [currentChannel |-> NoChannel, playMode |-> "live",
                      currentTime |-> T0]
    /\ currentPlayingProgram = NoProgram
    /\ appPending = {}
    /\ appLookup = NoLookup

\* useState initial values of PlayerPage, before its mount effects
\* no loadPlaylist call: the state before the first playlist has been parsed
NoLoad == [id |-> 0, url |-> Undefined]

PageIdle ==
    /\ metadata = NoMetadata
    /\ epgData = <<>>
    /\ currentChannel = NoChannel
    /\ playMode = "live"
    /\ playbackSegments = <<>>
    /\ streamStartTime = T0
    /\ currentVideoTime = 0
    /\ catchupTailOffset = 0
    /\ customM3uUrl = Undefined
    /\ error = Undefined
    /\ loads = {}
    /\ pagePending = {}
    /\ pageOp = [name |-> "mount"]
    /\ loadCount = 0
    /\ metadataFrom = NoLoad
    /\ epgFrom = 0

PlIdle ==
    /\ plText = <<>>
    /\ plResult = NoMetadata
    /\ plCut = 0
    /\ plCutResult = NoMetadata
    /\ plStage = "text"

EpIdle ==
    /\ epDoc = <<>>
    /\ epIndex = <<>>
    /\ epKey = Undefined
    /\ epMerged = <<>>
    /\ epStage = "doc"

GapIdle ==
    /\ gfExisting = <<>>
    /\ gfNow = 0
    /\ gfFallback = <<>>
    /\ gfCombined = <<>>
    /\ gfPass = 0

AppInit ==
    /\ GapIdle
    /\ PlIdle
    /\ EpIdle
    /\ PageIdle
    /\ wallClock = T0
    /\ op = "mount"
    /\ lastChannelId \in LastChannelIds
    /\ appChannels = <<>>
    /\ appEpgData = [loaded |-> FALSE, data |-> <<>>]
    /\ playerState = [currentChannel |-> NoChannel, playMode |-> "live",
                      currentTime |-> T0]
    /\ currentPlayingProgram = NoProgram
    /\ appPending = {}
    /\ appLookup = NoLookup

\* the wall clock advances (effects run in the turn that scheduled them)
AppTick ==
    /\ appPending = {}
    /\ \E d \in TickSteps :
          /\ wallClock + d <= T0 + MaxElapsed
          /\ wallClock' = wallClock + d
    /\ op' = "tick"
    /\ UNCHANGED <<gfVars, parserVars, pageVars, lastChannelId, appVars>>

\* useM3ULoader: a fetch of the playlist succeeded (first load or refresh)
AppM3ULoaded ==
    /\ appPending = {}
    /\ \E text \in PlaylistTexts :
          appChannels' = parseM3U(text).channels
    /\ appPending' = appPending \cup {"initialChannel"}
    /\ op' = "m3uLoaded"
    /\ UNCHANGED <<gfVars, parserVars, pageVars, wallClock, lastChannelId, appEpgData, playerState,
                   currentPlayingProgram, appLookup>>

\* useEPGLoader: a fetch of the guide succeeded (first load or refresh)
AppEPGLoaded ==
    /\ appPending = {}
    /\ \E xml \in EpgDocs :
          appEpgData' = [loaded |-> TRUE, data |-> parseEPG(xml, wallClock)]
    /\ appPending' = appPending \cup {"currentProgram"}
    /\ op' = "epgLoaded"
    /\ UNCHANGED <<gfVars, parserVars, pageVars, wallClock, lastChannelId, appChannels, playerState,
                   currentPlayingProgram, appLookup>>

\* channels.find(c => c.id === lastChannelId), undefined as NoChannel
RECURSIVE FindChannelById(_, _)
FindChannelById(channels, id) ==
    IF channels = <<>> THEN NoChannel
    ELSE IF Head(channels).id = id THEN Head(channels)
         ELSE FindChannelById(Tail(channels), id)

\* the effect on [channels]: restore the last channel
AppInitialChannelEffect ==
    /\ "initialChannel" \in appPending
    /\ LET initialChannel ==
               IF Len(appChannels) > 0
               THEN IF lastChannelId # Undefined
                    THEN FindChannelById(appChannels, lastChannelId)
                    ELSE appChannels[1]
               ELSE NoChannel
       IN  IF initialChannel # NoChannel
           THEN /\ playerState' = [playerState EXCEPT
                                       !.currentChannel = initialChannel]
                /\ appPending' = (appPending \ {"initialChannel"})
                                     \cup {"currentProgram"}
           ELSE /\ playerState' = playerState
                /\ appPending' = appPending \ {"initialChannel"}
    /\ op' = "initialChannelEffect"
    /\ UNCHANGED <<gfVars, parserVars, pageVars, wallClock, lastChannelId, appChannels, appEpgData,
                   currentPlayingProgram, appLookup>>

\* updatedEpgData = {...epgData, [channelId]: allPrograms}
WithPrograms(epg, channelId, allPrograms) ==
    [k \in DOMAIN epg \cup {channelId} |->
        IF k = channelId THEN allPrograms ELSE epg[k]]

\* the effect on [currentChannel, epgData, currentTime]: the programme on air
AppCurrentProgramEffect ==
    /\ appPending = {"currentProgram"}
    /\ appPending' = {}
    /\ IF playerState.currentChannel = NoChannel \/ ~appEpgData.loaded
       THEN UNCHANGED <<currentPlayingProgram, appLookup>>
       ELSE LET channelId == playerState.currentChannel.id
                programs == ProgramsOf(appEpgData.data, channelId)
                allPrograms ==
                    MergePrograms(programs,
                                  generateFallbackPrograms(programs, channelId,
                                                           LookbackHours,
                                                           wallClock))
            IN  /\ currentPlayingProgram' = FindCovering(allPrograms, wallClock)
                /\ appLookup' =
                      [ran |-> TRUE, channelId |-> channelId,
                       time |-> wallClock,
                       updatedEpgData |->
                           WithPrograms(appEpgData.data, channelId, allPrograms)]
    /\ op' = "currentProgramEffect"
    /\ UNCHANGED <<gfVars, parserVars, pageVars, wallClock, lastChannelId, appChannels, appEpgData,
                   playerState>>

\* a click in the channel list
handleChannelSelect ==
    /\ appPending = {}
    /\ \E i \in 1..Len(appChannels) :
          playerState' = [currentChannel |-> appChannels[i],
                          playMode |-> "live", currentTime |-> wallClock]
    /\ appPending' = {"currentProgram"}
    /\ op' = "handleChannelSelect"
    /\ UNCHANGED <<gfVars, parserVars, pageVars, wallClock, lastChannelId, appChannels, appEpgData,
                   currentPlayingProgram, appLookup>>

\* a click on a programme of the guide of the current channel
handleProgramSelect ==
    /\ appPending = {}
    /\ playerState.currentChannel # NoChannel
    /\ appEpgData.loaded
    /\ LET programs == ProgramsOf(appEpgData.data,
                                  playerState.currentChannel.id)
       IN  \E i \in 1..Len(programs) :
              playerState' = [playerState EXCEPT
                                 !.playMode = "catchup",
                                 !.currentTime = programs[i].start]
    /\ appPending' = {"currentProgram"}
    /\ op' = "handleProgramSelect"
    /\ UNCHANGED <<gfVars, parserVars, pageVars, wallClock, lastChannelId, appChannels, appEpgData,
                   currentPlayingProgram, appLookup>>

AppNext ==
    \/ AppTick
    \/ AppM3ULoaded
    \/ AppEPGLoaded
    \/ AppInitialChannelEffect
    \/ AppCurrentProgramEffect
    \/ handleChannelSelect
    \/ handleProgramSelect

SpecApp == AppInit /\ [][AppNext]_vars

-----------------------------------------------------------------------------
(* Functions that PlayerPage imports from lib/epg-parser and lib/m3u-parser *)
(* and that the source tree does not hold; modelled from the specification. *)

\* 4.3: the first of tvgId, tvgName, name that is a key of the index
getEPGChannelId(channel, epg) ==
    IF channel.tvgId # Undefined /\ channel.tvgId \in DOMAIN epg
    THEN channel.tvgId
    ELSE IF channel.tvgName # Undefined /\ channel.tvgName \in DOMAIN epg
         THEN channel.tvgName
         ELSE IF channel.name \in DOMAIN epg THEN channel.name
              ELSE Undefined

\* 4.5: the entry with start <= absoluteTime < end, none if there is none
getCurrentProgram(channelId, epg, absoluteTime) ==
    FindCovering(ProgramsOf(epg, channelId), absoluteTime)

\* 4.2: parseEPG constrained by the set of relevant channel keys
loadEPG(xml, validChannelIds, clock) ==
    LET parsed == parseEPG(xml, clock)
    IN  [k \in DOMAIN parsed \cap validChannelIds |-> parsed[k]]

\* the key that receives a channel's synthetic entries: its resolved key,
\* and the first identity field it has when no key resolves
FillKey(channel, epg) ==
    Or(getEPGChannelId(channel, epg),
       Or(channel.tvgId, Or(channel.tvgName, channel.name)))

\* 4.4: gap-fill of every catchup-capable channel's list
RECURSIVE fillEPGGaps(_, _, _)
fillEPGGaps(epg, channels, clock) ==
    IF channels = <<>> THEN epg
    ELSE IF ~CatchupCapable(Head(channels))
         THEN fillEPGGaps(epg, Tail(channels), clock)
         ELSE LET key == FillKey(Head(channels), epg)
                  programs == ProgramsOf(epg, key)
                  allPrograms ==
                      MergePrograms(programs,
                                    generateFallbackPrograms(programs, key,
                                                             LookbackHours,
                                                             clock))
              IN  fillEPGGaps(WithPrograms(epg, key, allPrograms),
                              Tail(channels), clock)

\* 4.5: the catchup source template instantiated with the requested start
\* and the end boundary now - tailOffsetSeconds
buildCatchupSegments(channel, requestedStart, tailOffsetSeconds, clock) ==
    << [url |-> channel.catchupSource,
        start |-> requestedStart,
        end |-> clock - tailOffsetSeconds * 1000,
        duration |-> (clock - tailOffsetSeconds * 1000 - requestedStart)
                        \div 1000] >>

-----------------------------------------------------------------------------
(* The PlayerPage component *)

\* what getCatchupTailOffset() can hold, and what the settings menu offers
TailOffsets == {0, 10, 60}

\* the playlist address the user saves
CustomUrl == "http://custom/list.m3u"

\* getCustomM3uUrl() || "" when the page opens: nothing stored, or an address
StoredM3uUrls == {Undefined, CustomUrl}

\* what the address field holds, trimmed, when the user saves it
TempM3uUrls == {Undefined, CustomUrl}

\* how many times loadPlaylist is called at most
MaxLoads == 3

\* what the video player reports as playback position, in seconds
VideoTimes == {0, 10}

\* a seek request, relative to the wall clock: far in the past, at and
\* around the 30 s threshold, near the live edge, now, and in the future
SeekOffsets == {-100000, -30001, -30000, -29999, -5000, 0, 5000}

\* handleVideoSeek without the 30 s branch: the requested time is taken as
\* it comes
SeekTarget_NoClamp(seekTime, startTime, clock) ==
    seekTime

\* handleVideoSeek with a stream start compared by <= instead of <
SeekTarget_StartNotAfter(seekTime, startTime, clock) ==
    IF seekTime > clock - 30 * 1000
    THEN IF startTime <= seekTime THEN clock ELSE clock - 30 * 1000
    ELSE seekTime

\* handleVideoSeek: the stream start a seek to seekTime sets
SeekTarget(seekTime, startTime, clock) ==
    IF seekTime > clock - 30 * 1000
    THEN IF startTime < seekTime THEN clock ELSE clock - 30 * 1000
    ELSE seekTime

\* the segment-selection effect without the capability check
SegmentSelection_NoCapabilityCheck(channel, startTime, tailOffset, clock, segments, mode) ==
    IF startTime > clock - 3000
    THEN [segments |-> << [url |-> channel.url, duration |-> 0] >>,
          mode |-> "live"]
    ELSE [segments |-> buildCatchupSegments(channel, startTime,
                                            tailOffset, clock),
          mode |-> "catchup"]

\* the segment-selection effect with the capability check moved before the
\* live check
SegmentSelection_CapabilityFirst(channel, startTime, tailOffset, clock, segments, mode) ==
    IF ~CatchupCapable(channel)
    THEN [segments |-> segments, mode |-> mode]
    ELSE IF startTime > clock - 3000
         THEN [segments |-> << [url |-> channel.url, duration |-> 0] >>,
               mode |-> "live"]
         ELSE [segments |-> buildCatchupSegments(channel, startTime,
                                                 tailOffset, clock),
               mode |-> "catchup"]

\* the segment-selection effect for a current channel: the segment list and
\* play mode it leaves
SegmentSelection(channel, startTime, tailOffset, clock, segments, mode) ==
    IF startTime > clock - 3000
    THEN [segments |-> << [url |-> channel.url, duration |-> 0] >>,
          mode |-> "live"]
    ELSE IF ~CatchupCapable(channel)
         THEN [segments |-> segments, mode |-> mode]
         ELSE [segments |-> buildCatchupSegments(channel, startTime,
                                                 tailOffset, clock),
               mode |-> "catchup"]

\* the channel loadPlaylist selects in a non-empty catalog
ChannelToSelect(channels, lastId) ==
    IF lastId # Undefined /\ FindChannelById(channels, lastId) # NoChannel
    THEN FindChannelById(channels, lastId)
    ELSE channels[1]

\* validChannelIds of loadPlaylist
ValidChannelIds(channels) ==
    UNION { ({channels[i].tvgId, channels[i].tvgName} \ {Undefined})
              \cup {channels[i].name} : i \in 1..Len(channels) }

\* metadata.channels.findIndex(ch => ch === currentChannel), 0-based, -1
\* when there is none
FindIndex(channels, channel) ==
    IF \E i \in 1..Len(channels) : channels[i] = channel
    THEN (CHOOSE i \in 1..Len(channels) :
            /\ channels[i] = channel
            /\ \A j \in 1..(i - 1) : channels[j] # channel) - 1
    ELSE -1

PageInit ==
    /\ GapIdle
    /\ PlIdle
    /\ EpIdle
    /\ AppIdle
    /\ wallClock = T0
    /\ lastChannelId \in LastChannelIds
    /\ metadata = NoMetadata
    /\ epgData = <<>>
    /\ currentChannel = NoChannel
    /\ playMode = "live"
    /\ playbackSegments = <<>>
    /\ streamStartTime = T0
    /\ currentVideoTime = 0
    /\ catchupTailOffset \in TailOffsets
    /\ customM3uUrl \in StoredM3uUrls
    /\ error = Undefined
    /\ loads = {}
    /\ pagePending = {"segments", "saveLast", "loadPlaylist"}
    /\ pageOp = [name |-> "mount"]
    /\ loadCount = 0
    /\ metadataFrom = NoLoad
    /\ epgFrom = 0

\* the wall clock advances (effects run in the turn that scheduled them)
PageTick ==
    /\ pagePending = {}
    /\ \E d \in TickSteps :
          /\ wallClock + d <= T0 + MaxElapsed
          /\ wallClock' = wallClock + d
    /\ pageOp' = [name |-> "tick"]
    /\ UNCHANGED <<gfVars, parserVars, appVars, loadVars, op, lastChannelId, metadata, epgData,
                   currentChannel, playMode, playbackSegments, streamStartTime,
                   currentVideoTime, catchupTailOffset, customM3uUrl, error,
                   loads, pagePending>>

\* loadPlaylist(customUrl) up to its fetch, called while the state
\* customM3uUrl has the value stored: the fetch it starts
StartLoad(customUrl, stored) ==
    [stage |-> "fetch", id |-> loadCount + 1,
     url |-> Or(customUrl, Or(stored, "/playlist.m3u"))]

\* the effect on [loadPlaylist]: loadPlaylist() up to its fetch
PageLoadOnMount ==
    /\ pagePending = {"loadPlaylist"}
    /\ pagePending' = {}
    /\ error' = Undefined
    /\ loads' = loads \cup {StartLoad(Undefined, customM3uUrl)}
    /\ loadCount' = loadCount + 1
    /\ pageOp' = [name |-> "loadPlaylist"]
    /\ UNCHANGED <<gfVars, parserVars, appVars, sharedVars, metadata, epgData,
                   currentChannel, playMode, playbackSegments, streamStartTime,
                   currentVideoTime, catchupTailOffset, customM3uUrl,
                   metadataFrom, epgFrom>>

\* loadPlaylist after a fetch that failed: the catch block
PagePlaylistFailed ==
    /\ pagePending = {}
    /\ \E l \in loads :
          /\ l.stage = "fetch"
          /\ loads' = loads \ {l}
    /\ error' = "failedToLoadPlaylist"
    /\ pageOp' = [name |-> "playlistFailed"]
    /\ UNCHANGED <<gfVars, parserVars, appVars, loadVars, sharedVars, metadata, epgData,
                   currentChannel, playMode, playbackSegments, streamStartTime,
                   currentVideoTime, catchupTailOffset, customM3uUrl,
                   pagePending>>

\* loadPlaylist after a fetch that returned a playlist text
PagePlaylistLoaded ==
    /\ pagePending = {}
    /\ \E l \in loads : \E text \in PlaylistTexts :
          LET parsed == parseM3U(text) IN
          /\ l.stage = "fetch"
          /\ metadata' = parsed
          /\ metadataFrom' = [id |-> l.id, url |-> l.url]
          /\ IF parsed.tvgUrl # Undefined
             THEN /\ loads' = (loads \ {l}) \cup
                                 {[stage |-> "epg", id |-> l.id,
                                   channels |-> parsed.channels]}
                  /\ UNCHANGED <<epgData, epgFrom>>
             ELSE /\ loads' = loads \ {l}
                  /\ epgData' = fillEPGGaps(<<>>, parsed.channels, wallClock)
                  /\ epgFrom' = l.id
          /\ IF Len(parsed.channels) > 0
             THEN /\ currentChannel' =
                        ChannelToSelect(parsed.channels, lastChannelId)
                  /\ streamStartTime' = wallClock
                  /\ pagePending' = {"segments", "saveLast"}
             ELSE UNCHANGED <<currentChannel, streamStartTime, pagePending>>
          /\ pageOp' = [name |-> "playlistLoaded", id |-> l.id,
                        channels |-> parsed.channels,
                        tvgUrl |-> parsed.tvgUrl]
    /\ loadCount' = loadCount
    /\ UNCHANGED <<gfVars, parserVars, appVars, sharedVars, playMode, playbackSegments,
                   currentVideoTime, catchupTailOffset, customM3uUrl, error>>

\* loadEPG(...).then
PageEpgLoaded ==
    /\ pagePending = {}
    /\ \E l \in loads : \E xml \in EpgDocs :
          /\ l.stage = "epg"
          /\ loads' = loads \ {l}
          /\ epgFrom' = l.id
          /\ pageOp' = [name |-> "epgLoaded", id |-> l.id,
                        channels |-> l.channels]
          /\ epgData' = fillEPGGaps(loadEPG(xml, ValidChannelIds(l.channels),
                                            wallClock),
                                    l.channels, wallClock)
    /\ UNCHANGED <<gfVars, parserVars, appVars, loadCount, metadataFrom, sharedVars, metadata, currentChannel,
                   playMode, playbackSegments, streamStartTime,
                   currentVideoTime, catchupTailOffset, customM3uUrl, error,
                   pagePending>>

\* loadEPG(...).catch that leaves the index as it is
PageEpgFailed_Silent ==
    /\ pagePending = {}
    /\ \E l \in loads :
          /\ l.stage = "epg"
          /\ loads' = loads \ {l}
          /\ pageOp' = [name |-> "epgFailed", id |-> l.id,
                        channels |-> l.channels]
    /\ UNCHANGED <<gfVars, parserVars, appVars, loadVars, sharedVars, metadata, epgData,
                   currentChannel, playMode, playbackSegments, streamStartTime,
                   currentVideoTime, catchupTailOffset, customM3uUrl, error,
                   pagePending>>

\* loadEPG(...).catch
PageEpgFailed ==
    /\ pagePending = {}
    /\ \E l \in loads :
          /\ l.stage = "epg"
          /\ loads' = loads \ {l}
          /\ epgFrom' = l.id
          /\ pageOp' = [name |-> "epgFailed", id |-> l.id,
                        channels |-> l.channels]
          /\ epgData' = fillEPGGaps(<<>>, l.channels, wallClock)
    /\ UNCHANGED <<gfVars, parserVars, appVars, loadCount, metadataFrom, sharedVars, metadata, currentChannel,
                   playMode, playbackSegments, streamStartTime,
                   currentVideoTime, catchupTailOffset, customM3uUrl, error,
                   pagePending>>

\* the effect on [currentChannel, streamStartTime, catchupTailOffset]
PageSegmentEffect ==
    /\ "segments" \in pagePending
    /\ IF currentChannel = NoChannel
       THEN /\ UNCHANGED <<playbackSegments, playMode>>
            /\ pagePending' = pagePending \ {"segments"}
       ELSE LET sel == SegmentSelection(currentChannel, streamStartTime,
                                        catchupTailOffset, wallClock,
                                        playbackSegments, playMode)
            IN  /\ playbackSegments' = sel.segments
                /\ playMode' = sel.mode
                /\ pagePending' = (pagePending \ {"segments"}) \cup
                                     (IF sel.mode # playMode
                                      THEN {"saveLast"} ELSE {})
    /\ pageOp' = [name |-> "segmentEffect", prevMode |-> playMode]
    /\ UNCHANGED <<gfVars, parserVars, appVars, loadVars, sharedVars, metadata, epgData,
                   currentChannel, streamStartTime, currentVideoTime,
                   catchupTailOffset, customM3uUrl, error, loads>>

\* the effect on [currentChannel, playMode]: save the last played channel
PageSaveLastEffect ==
    /\ "saveLast" \in pagePending
    /\ "segments" \notin pagePending
    /\ pagePending' = pagePending \ {"saveLast"}
    /\ lastChannelId' = IF currentChannel # NoChannel /\ playMode = "live"
                        THEN currentChannel.id ELSE lastChannelId
    /\ pageOp' = [name |-> "saveLastEffect"]
    /\ UNCHANGED <<gfVars, parserVars, appVars, loadVars, wallClock, op, metadata, epgData,
                   currentChannel, playMode, playbackSegments, streamStartTime,
                   currentVideoTime, catchupTailOffset, customM3uUrl, error,
                   loads>>

\* selectChannel from a click in the channel list
PageSelectChannel ==
    /\ pagePending = {}
    /\ metadata # NoMetadata
    /\ \E i \in 1..Len(metadata.channels) :
          currentChannel' = metadata.channels[i]
    /\ streamStartTime' = wallClock
    /\ pagePending' = {"segments", "saveLast"}
    /\ pageOp' = [name |-> "selectChannel"]
    /\ UNCHANGED <<gfVars, parserVars, appVars, loadVars, sharedVars, metadata, epgData, playMode,
                   playbackSegments, currentVideoTime, catchupTailOffset,
                   customM3uUrl, error, loads>>

handleVideoSeek ==
    /\ pagePending = {}
    /\ \E o \in SeekOffsets :
          /\ streamStartTime' =
                SeekTarget(wallClock + o, streamStartTime, wallClock)
          /\ pageOp' = [name |-> "handleVideoSeek", seekTime |-> wallClock + o,
                        prevStart |-> streamStartTime]
    /\ pagePending' = {"segments"}
    /\ UNCHANGED <<gfVars, parserVars, appVars, loadVars, sharedVars, metadata, epgData,
                   currentChannel, playMode, playbackSegments,
                   currentVideoTime, catchupTailOffset, customM3uUrl, error,
                   loads>>

\* the targets of handleChannelNavigate: "prev", "next" or a 1-based index
NavTargets(n) ==
    {[kind |-> "prev"], [kind |-> "next"]}
        \cup { [kind |-> "index", index |-> k] : k \in 0..(n + 1) }

\* handleChannelNavigate without wraparound: prev stays on the first
\* channel and next stays on the last
NavigateTo_NoWrap(channels, current, target) ==
    IF target.kind \in {"prev", "next"}
    THEN IF current = NoChannel THEN NoChannel
         ELSE LET currentIndex == FindIndex(channels, current)
                  nextIndex ==
                      IF target.kind = "prev"
                      THEN IF currentIndex > 0 THEN currentIndex - 1 ELSE 0
                      ELSE IF currentIndex < Len(channels) - 1
                           THEN currentIndex + 1 ELSE Len(channels) - 1
              IN  channels[nextIndex + 1]
    ELSE IF target.index - 1 \in 0..(Len(channels) - 1)
         THEN channels[target.index]
         ELSE NoChannel

\* handleChannelNavigate reading metadata.channels[target] for an index
NavigateTo_ZeroBased(channels, current, target) ==
    IF target.kind \in {"prev", "next"}
    THEN IF current = NoChannel THEN NoChannel
         ELSE LET currentIndex == FindIndex(channels, current)
                  nextIndex ==
                      IF target.kind = "prev"
                      THEN IF currentIndex > 0 THEN currentIndex - 1
                           ELSE Len(channels) - 1
                      ELSE IF currentIndex < Len(channels) - 1
                           THEN currentIndex + 1 ELSE 0
              IN  channels[nextIndex + 1]
    ELSE IF target.index \in 0..(Len(channels) - 1)
         THEN channels[target.index + 1]
         ELSE NoChannel

\* the channel handleChannelNavigate selects in a non-empty catalog,
\* NoChannel when it returns without selecting
NavigateTo(channels, current, target) ==
    IF target.kind \in {"prev", "next"}
    THEN IF current = NoChannel THEN NoChannel
         ELSE LET currentIndex == FindIndex(channels, current)
                  nextIndex ==
                      IF target.kind = "prev"
                      THEN IF currentIndex > 0 THEN currentIndex - 1
                           ELSE Len(channels) - 1
                      ELSE IF currentIndex < Len(channels) - 1
                           THEN currentIndex + 1 ELSE 0
              IN  channels[nextIndex + 1]
    ELSE IF target.index - 1 \in 0..(Len(channels) - 1)
         THEN channels[target.index]
         ELSE NoChannel

\* metadata ? metadata.channels.length : 0
CatalogSize ==
    IF metadata = NoMetadata THEN 0 ELSE Len(metadata.channels)

handleChannelNavigate ==
    /\ pagePending = {}
    /\ \E target \in NavTargets(CatalogSize) :
          LET channel ==
                  IF CatalogSize = 0 THEN NoChannel
                  ELSE NavigateTo(metadata.channels, currentChannel, target)
          IN  /\ IF channel # NoChannel
                 THEN /\ currentChannel' = channel
                      /\ streamStartTime' = wallClock
                      /\ pagePending' = {"segments", "saveLast"}
                 ELSE UNCHANGED <<currentChannel, streamStartTime, pagePending>>
              /\ pageOp' = [name |-> "handleChannelNavigate", target |-> target,
                            from |-> currentChannel,
                            selected |-> channel # NoChannel]
    /\ UNCHANGED <<gfVars, parserVars, appVars, loadVars, sharedVars, metadata, epgData, playMode,
                   playbackSegments, currentVideoTime, catchupTailOffset,
                   customM3uUrl, error, loads>>

handleCatchupTailOffsetChange ==
    /\ pagePending = {}
    /\ \E offset \in TailOffsets :
          /\ catchupTailOffset' = offset
          /\ pagePending' = IF offset # catchupTailOffset
                            THEN {"segments"} ELSE {}
    /\ pageOp' = [name |-> "handleCatchupTailOffsetChange"]
    /\ UNCHANGED <<gfVars, parserVars, appVars, loadVars, sharedVars, metadata, epgData,
                   currentChannel, playMode, playbackSegments, streamStartTime,
                   currentVideoTime, customM3uUrl, error, loads>>

\* a change of customM3uUrl gives loadPlaylist a new identity, and the effect
\* on [loadPlaylist] runs again.  (The translation function t, also a
\* dependency of loadPlaylist, is taken as stable here; usePlayerTranslation
\* as written returns a new function in every render, which makes the effect
\* start further loads of the stored address: the reloads that
\* handleResetM3uUrl with nothing stored stands for.)
LoadsStartedBy(newUrl) ==
    IF newUrl # customM3uUrl THEN 2 ELSE 1

\* handleSaveM3uUrl with tempM3uUrl.trim() one of TempM3uUrls; the
\* loadPlaylist it calls is the one of the last render
handleSaveM3uUrl ==
    /\ pagePending = {}
    /\ \E temp \in TempM3uUrls :
          /\ loadCount + LoadsStartedBy(temp) <= MaxLoads
          /\ customM3uUrl' = temp
          /\ loads' = loads \cup {StartLoad(Or(temp, Undefined), customM3uUrl)}
          /\ pagePending' = IF temp # customM3uUrl
                            THEN {"loadPlaylist"} ELSE {}
          /\ pageOp' = [name |-> "handleSaveM3uUrl", temp |-> temp,
                        stored |-> customM3uUrl]
    /\ error' = Undefined
    /\ loadCount' = loadCount + 1
    /\ UNCHANGED <<gfVars, parserVars, appVars, sharedVars, metadata, epgData,
                   currentChannel, playMode, playbackSegments, streamStartTime,
                   currentVideoTime, catchupTailOffset, metadataFrom, epgFrom>>

\* handleResetM3uUrl; the loadPlaylist it calls is the one of the last render
handleResetM3uUrl ==
    /\ pagePending = {}
    /\ loadCount + LoadsStartedBy(Undefined) <= MaxLoads
    /\ customM3uUrl' = Undefined
    /\ loads' = loads \cup {StartLoad(Undefined, customM3uUrl)}
    /\ pagePending' = IF customM3uUrl # Undefined
                      THEN {"loadPlaylist"} ELSE {}
    /\ pageOp' = [name |-> "handleResetM3uUrl", stored |-> customM3uUrl]
    /\ error' = Undefined
    /\ loadCount' = loadCount + 1
    /\ UNCHANGED <<gfVars, parserVars, appVars, sharedVars, metadata, epgData,
                   currentChannel, playMode, playbackSegments, streamStartTime,
                   currentVideoTime, catchupTailOffset, metadataFrom, epgFrom>>

\* onCurrentVideoTimeChange={setCurrentVideoTime}
PageVideoTimeChange ==
    /\ pagePending = {}
    /\ currentChannel # NoChannel
    /\ \E t \in VideoTimes : currentVideoTime' = t
    /\ pageOp' = [name |-> "setCurrentVideoTime"]
    /\ UNCHANGED <<gfVars, parserVars, appVars, loadVars, sharedVars, metadata, epgData,
                   currentChannel, playMode, playbackSegments, streamStartTime,
                   catchupTailOffset, customM3uUrl, error, loads, pagePending>>

\* the useMemo value currentVideoProgram
currentVideoProgram ==
    IF currentChannel = NoChannel THEN NoProgram
    ELSE LET epgChannelId == getEPGChannelId(currentChannel, epgData)
         IN  IF epgChannelId = Undefined THEN NoProgram
             ELSE getCurrentProgram(epgChannelId, epgData,
                                    streamStartTime + currentVideoTime * 1000)

Next ==
    \/ PageTick
    \/ PageLoadOnMount
    \/ PagePlaylistFailed
    \/ PagePlaylistLoaded
    \/ PageEpgLoaded
    \/ PageEpgFailed
    \/ PageSegmentEffect
    \/ PageSaveLastEffect
    \/ PageSelectChannel
    \/ handleVideoSeek
    \/ handleChannelNavigate
    \/ handleCatchupTailOffsetChange
    \/ PageVideoTimeChange

\* playback: one playlist load, then every playback handler
Spec == PageInit /\ [][Next]_vars

\* playlist reloads: up to MaxLoads calls of loadPlaylist that overlap in
\* every way, with channel selection and navigation, at one instant of the
\* wall clock
ReloadInit ==
    /\ PageInit
    /\ catchupTailOffset = 0

ReloadNext ==
    \/ PageLoadOnMount
    \/ PagePlaylistFailed
    \/ PagePlaylistLoaded
    \/ PageEpgLoaded
    \/ PageEpgFailed
    \/ PageSegmentEffect
    \/ PageSaveLastEffect
    \/ PageSelectChannel
    \/ handleChannelNavigate
    \/ handleSaveM3uUrl
    \/ handleResetM3uUrl

SpecReload == ReloadInit /\ [][ReloadNext]_vars

\* playlist loads with their EPG loads, to the end: the load on mount and
\* reloads by handleResetM3uUrl, no custom address and no last channel stored
LoadInit ==
    /\ ReloadInit
    /\ lastChannelId = Undefined
    /\ customM3uUrl = Undefined

LoadNext ==
    \/ PageLoadOnMount
    \/ PagePlaylistFailed
    \/ PagePlaylistLoaded
    \/ PageEpgLoaded
    \/ PageEpgFailed
    \/ PageSegmentEffect
    \/ PageSaveLastEffect
    \/ handleResetM3uUrl

\* the promise of loadEPG of call n settles: PageEpgLoaded or PageEpgFailed
\* for that call, by what either does to loads and epgFrom
EpgSettles(n) ==
    /\ pagePending = {}
    /\ \E l \in loads :
          /\ l.stage = "epg"
          /\ l.id = n
          /\ loads' = loads \ {l}
          /\ epgFrom' = n

\* React runs the effects it has scheduled, and a promise that exists
\* settles, one way or the other
LoadFairness ==
    /\ WF_vars(PageSegmentEffect)
    /\ WF_vars(PageSaveLastEffect)
    /\ WF_vars(PageLoadOnMount)
    /\ \A n \in 1..MaxLoads : WF_<<loads, epgFrom>>(EpgSettles(n))

SpecLoadFair == LoadInit /\ [][LoadNext]_vars /\ LoadFairness

-----------------------------------------------------------------------------
(* parseM3U on its own: the parser applied to every text of up to MaxLines  *)
(* lines over PlaylistLines, then to the text less one metadata line that   *)
(* no URL line follows.                                                     *)

MaxLines == 4

\* a header, a comment, two URLs, and metadata lines with every attribute,
\* with a title only, with a tvg-id and a group but no title, and with
\* nothing after the comma
PlaylistLines ==
    { ExtM3ULine("http://epg/guide.xml.gz"),
      CommentLine,
      UrlLine("http://x/1"),
      UrlLine("http://x/2"),
      ExtInfLine("a", "b", "logo-a", "News", "default", "http://cs/a", "c"),
      ExtInfLine(Undefined, Undefined, Undefined, Undefined, Undefined,
                 Undefined, "d"),
      ExtInfLine("x", Undefined, Undefined, "Sport", Undefined, Undefined,
                 Undefined),
      ExtInfLine(Undefined, Undefined, Undefined, Undefined, Undefined,
                 Undefined, Undefined) }

\* the sequences over S of length at most n
Texts(S, n) ==
    UNION { [1..k -> S] : k \in 0..n }

\* the first line after position i that is a URL line or a metadata line, 0
\* when there is none
NextUrlOrMeta(text, i) ==
    IF \E j \in (i + 1)..Len(text) : text[j].kind \in {"url", "EXTINF"}
    THEN CHOOSE j \in (i + 1)..Len(text) :
            /\ text[j].kind \in {"url", "EXTINF"}
            /\ \A h \in (i + 1)..(j - 1) : text[h].kind \notin {"url", "EXTINF"}
    ELSE 0

\* line i is a metadata line followed by a URL line before the next metadata
\* line
Paired(text, i) ==
    /\ text[i].kind = "EXTINF"
    /\ NextUrlOrMeta(text, i) # 0
    /\ text[NextUrlOrMeta(text, i)].kind = "url"

\* text.filter((_, j) => j !== i)
WithoutLine(text, i) ==
    SubSeq(text, 1, i - 1) \o SubSeq(text, i + 1, Len(text))

M3UInit ==
    /\ wallClock = T0
    /\ lastChannelId = Undefined
    /\ AppIdle
    /\ PageIdle
    /\ GapIdle
    /\ EpIdle
    /\ plText \in Texts(PlaylistLines, MaxLines)
    /\ plResult = NoMetadata
    /\ plCut = 0
    /\ plCutResult = NoMetadata
    /\ plStage = "text"

ParsePlaylist ==
    /\ plStage = "text"
    /\ plResult' = parseM3U(plText)
    /\ plStage' = "parsed"
    /\ UNCHANGED <<plText, plCut, plCutResult, gfVars, sharedVars, appVars,
                   pageVars, epVars>>

\* the same text without one of its metadata lines that no URL line follows
ParseWithoutDiscarded ==
    /\ plStage = "parsed"
    /\ \E i \in 1..Len(plText) :
          /\ plText[i].kind = "EXTINF"
          /\ ~Paired(plText, i)
          /\ plCut' = i
          /\ plCutResult' = parseM3U(WithoutLine(plText, i))
    /\ plStage' = "cut"
    /\ UNCHANGED <<plText, plResult, gfVars, sharedVars, appVars, pageVars,
                   epVars>>

M3UNext ==
    \/ ParsePlaylist
    \/ ParseWithoutDiscarded

SpecM3U == M3UInit /\ [][M3UNext]_vars

-----------------------------------------------------------------------------
(* parseEPG on its own: the parser applied to every document of up to       *)
(* MaxItems programme elements over GuideItems, and one channel's list      *)
(* merged with its fallback programs as App does.                           *)

\* programmes of channel "a" in the past and on air, one whose stop is before
\* its start, one without stop, one without start, one whose start is not a
\* timestamp, a programme of channel "b" and one without channel attribute
GuideItems ==
    { Programme("a", Timestamp(T0 - 2 * HOUR_MS), Timestamp(T0 - HOUR_MS), "P1"),
      Programme("a", Timestamp(T0 - HOUR_MS), Timestamp(T0 + HOUR_MS), "P2"),
      Programme("a", Timestamp(T0 - 3 * HOUR_MS), Timestamp(T0 - 4 * HOUR_MS),
                "Inverted"),
      Programme("a", Timestamp(T0 + HOUR_MS), NoTimestamp, "NoStop"),
      Programme("a", NoTimestamp, Timestamp(T0 + HOUR_MS), "NoStart"),
      Programme("a", InvalidTimestamp, Timestamp(T0), "BadStart"),
      Programme("b", Timestamp(T0 - HOUR_MS), Timestamp(T0), "Pb"),
      Programme(Undefined, Timestamp(T0 - HOUR_MS), Timestamp(T0), "NoChannel") }

EPGInit ==
    /\ wallClock = T0
    /\ lastChannelId = Undefined
    /\ AppIdle
    /\ PageIdle
    /\ GapIdle
    /\ PlIdle
    /\ epDoc \in Texts(GuideItems, MaxItems)
    /\ epIndex = <<>>
    /\ epKey = Undefined
    /\ epMerged = <<>>
    /\ epStage = "doc"

ParseGuide ==
    /\ epStage = "doc"
    /\ epIndex' \in parseEPGOutcomes(epDoc, wallClock)
    /\ epStage' = "parsed"
    /\ UNCHANGED <<epDoc, epKey, epMerged, gfVars, sharedVars, appVars,
                   pageVars, plVars>>

\* [...programs, ...generateFallbackPrograms(programs, channelId, 48)].sort
MergeFallback ==
    /\ epStage = "parsed"
    /\ \E channelId \in DOMAIN epIndex :
          LET programs == epIndex[channelId]
              fallback == generateFallbackPrograms(programs, channelId,
                                                   LookbackHours, wallClock)
          IN  /\ epKey' = channelId
              /\ epMerged' \in SortOutcomes(programs \o fallback)
    /\ epStage' = "merged"
    /\ UNCHANGED <<epDoc, epIndex, gfVars, sharedVars, appVars, pageVars,
                   plVars>>

EPGNext ==
    \/ ParseGuide
    \/ MergeFallback

SpecEPG == EPGInit /\ [][EPGNext]_vars

-----------------------------------------------------------------------------
(* Gap-fill harness: inputs drawn from bounded sets, the function applied   *)
(* once, then applied again to its own combined result.                     *)

\* the longest list of real entries handed to the harness
MaxPrograms == 2

\* wall-clock instants of the call: on an even hour, on an odd hour, inside
\* an hour
GapNows == {50 * HOUR_MS, 51 * HOUR_MS, 52 * HOUR_MS + 30 * MIN_MS}

\* real entries as (start, end) in half hours since the epoch: whole slots,
\* parts of a slot, entries straddling slots, an empty and an inverted
\* entry (parseEPG does not compare stop with start), one before the window
\* and one past the live edge
GapSpans == { <<8, 12>>, <<9, 10>>, <<8, 9>>, <<10, 14>>, <<10, 18>>,
              <<14, 16>>, <<12, 12>>, <<14, 10>>, <<2, 4>>, <<3, 9>>,
              <<101, 102>>, <<96, 106>> }

GapEntries ==
    { Program(<<"ch", sp[1] * 30 * MIN_MS>>, "real",
              sp[1] * 30 * MIN_MS, sp[2] * 30 * MIN_MS) : sp \in GapSpans }

RECURSIVE SeqsUpTo(_, _)
SeqsUpTo(S, n) ==
    IF n = 0 THEN {<<>>}
    ELSE LET shorter == SeqsUpTo(S, n - 1)
         IN  shorter \cup { Append(q, x) : q \in shorter, x \in S }

GapInit ==
    /\ PlIdle
    /\ EpIdle
    /\ wallClock = T0
    /\ lastChannelId = Undefined
    /\ AppIdle
    /\ PageIdle
    /\ gfExisting \in { SortByStart(q) : q \in SeqsUpTo(GapEntries, MaxPrograms) }
    /\ gfNow \in GapNows
    /\ gfFallback = <<>>
    /\ gfCombined = gfExisting
    /\ gfPass = 0

\* one pass of gap-fill over the current combined list
FillGaps ==
    /\ gfPass < 2
    /\ LET fb == generateFallbackPrograms(gfCombined, "ch", LookbackHours, gfNow)
       IN  /\ gfFallback' = fb
           /\ gfCombined' = MergePrograms(gfCombined, fb)
    /\ gfPass' = gfPass + 1
    /\ UNCHANGED <<gfExisting, gfNow, sharedVars, appVars, pageVars, parserVars>>

GapNext == FillGaps

SpecGapFill == GapInit /\ [][GapNext]_vars

-----------------------------------------------------------------------------
(* Properties of gap-fill *)

IsSynthetic(p) == p.title = FALLBACK_TITLE

Min(a, b) == IF a <= b THEN a ELSE b
Max(a, b) == IF a >= b THEN a ELSE b

\* the half-open intervals [a.start, a.end) and [b.start, b.end) share an
\* instant
Intersects(a, b) == Max(a.start, b.start) < Min(a.end, b.end)

Covers(p, t) == p.start <= t /\ t < p.end

\* the start of the synthesis window, stated without the code's rounding:
\* the 2-hour boundary W with W <= now - 48h < W + 2h
WindowStart(now) ==
    CHOOSE w \in { k * 7200000 : k \in 0..((now - 48 * 3600000) \div 7200000) } :
        w <= now - 48 * 3600000 /\ now - 48 * 3600000 < w + 7200000

\* C3: no synthetic entry returned by generateFallbackPrograms has a
\* half-open interval [start, end) that intersects the [start, end) of a
\* real entry it was given.
C3_NoOverlap ==
    gfPass = 1 =>
        \A i \in 1..Len(gfFallback) : \A j \in 1..Len(gfExisting) :
            ~Intersects(gfFallback[i], gfExisting[j])

\* C3 witness: the call returned a synthetic entry that ends exactly where a
\* real entry of positive length starts, and dropped the next slot.
C3_Witness ==
    /\ gfPass = 1
    /\ \E i \in 1..Len(gfFallback) : \E j \in 1..Len(gfExisting) :
          /\ gfFallback[i].end = gfExisting[j].start
          /\ gfExisting[j].end > gfExisting[j].start
          /\ \A k \in 1..Len(gfFallback) :
                gfFallback[k].start # gfFallback[i].end

\* C4 (as claimed): after gap-fill every instant of the synthesis window,
\* from the rounded-down window start up to now, is covered by an entry of
\* the combined list.  Probed at every half hour of the window.
C4_Coverage ==
    gfPass = 1 =>
        \A k \in 0..((gfNow - 1 - WindowStart(gfNow)) \div (30 * 60 * 1000)) :
            LET t == WindowStart(gfNow) + k * 30 * 60 * 1000 IN
                \E i \in 1..Len(gfCombined) : Covers(gfCombined[i], t)

\* C5: for a fixed now, a second pass of gap-fill over the combined result
\* of the first adds no synthetic entry and leaves the combined list as it
\* was.
C5_Idempotent ==
    [][gfPass = 1 => (gfFallback' = <<>> /\ gfCombined' = gfCombined)]_vars

\* C5 witness: two passes have run over a list holding a real entry, and
\* the combined list holds real and synthetic entries.
C5_Witness ==
    /\ gfPass = 2
    /\ gfExisting # <<>>
    /\ \E i \in 1..Len(gfCombined) : IsSynthetic(gfCombined[i])
    /\ \E i \in 1..Len(gfCombined) : ~IsSynthetic(gfCombined[i])

\* C7: every synthetic entry spans exactly 2 hours, starts strictly before
\* now and on an even-numbered hour boundary, none starts before
\* now - lookbackHours rounded down to such a boundary, and with no real
\* entry the first block starts exactly there.
C7_Alignment ==
    gfPass = 1 =>
        /\ \A i \in 1..Len(gfFallback) :
              /\ gfFallback[i].end = gfFallback[i].start + 7200000
              /\ gfFallback[i].start < gfNow
              /\ gfFallback[i].start % 7200000 = 0
              /\ gfFallback[i].start >= WindowStart(gfNow)
        /\ gfExisting = <<>> =>
              /\ gfFallback # <<>>
              /\ gfFallback[1].start = WindowStart(gfNow)

\* C7 witness: a call on an odd hour (now - 48h = 3h, rounded down to 2h)
\* with no real entries returned blocks, the last one starting before now
\* and ending after it.
C7_Witness ==
    /\ gfPass = 1
    /\ gfExisting = <<>>
    /\ (gfNow \div 3600000) % 2 = 1
    /\ Len(gfFallback) = 25
    /\ gfFallback[25].end > gfNow


-----------------------------------------------------------------------------
(* Properties of the App component *)

\* the current-program effect has just run past its early return
AppEffectRan ==
    /\ op = "currentProgramEffect"
    /\ playerState.currentChannel # NoChannel
    /\ appEpgData.loaded

\* the list the effect searched
AppSearched == appLookup.updatedEpgData[appLookup.channelId]

C6_OnlyCatchupChannels ==
    appLookup.ran =>
        \A c \in 1..Len(appChannels) :
            (/\ ~CatchupCapable(appChannels[c])
             /\ appChannels[c].id \in DOMAIN appLookup.updatedEpgData)
            => \A i \in 1..Len(appLookup.updatedEpgData[appChannels[c].id]) :
                  ~IsSynthetic(appLookup.updatedEpgData[appChannels[c].id][i])

\* the key the claim resolves a channel to: the first of tvgId, tvgName and
\* name that is a key of the index, Undefined when none is
ClaimedEpgKey(channel, epg) ==
    IF channel.tvgId # Undefined /\ channel.tvgId \in DOMAIN epg
    THEN channel.tvgId
    ELSE IF channel.tvgName # Undefined /\ channel.tvgName \in DOMAIN epg
         THEN channel.tvgName
         ELSE IF channel.name \in DOMAIN epg THEN channel.name
              ELSE Undefined

\* C8 (as claimed): the key under which the channel's programs are read
\* from the index is the first of tvgId, tvgName, name that is a key of
\* the index, and none if none of them is.
C8_ResolutionPriority ==
    AppEffectRan =>
        (IF appLookup.channelId \in DOMAIN appEpgData.data
         THEN appLookup.channelId ELSE Undefined)
        = ClaimedEpgKey(playerState.currentChannel, appEpgData.data)

\* C9 (as claimed): the instant used to resolve the current program of a
\* catchup session is the start of the session plus the elapsed playback,
\* which cannot exceed the time the page has been open; it is not the wall
\* clock.
C9_SessionTimeline ==
    (AppEffectRan /\ playerState.playMode = "catchup") =>
        /\ appLookup.time >= playerState.currentTime
        /\ appLookup.time - playerState.currentTime <= wallClock - T0

-----------------------------------------------------------------------------
(* Properties of the PlayerPage component *)

\* C1: a seek to r with stream start s at wall clock now leaves the stream
\* start at now when r > now - 30 s and s < r, at now - 30 s when
\* r > now - 30 s and s >= r, and at r itself when r <= now - 30 s.
C1_SeekClamp ==
    pageOp.name = "handleVideoSeek" =>
        LET r == pageOp.seekTime
            s == pageOp.prevStart
        IN  /\ (r > wallClock - 30000 /\ s < r) => streamStartTime = wallClock
            /\ (r > wallClock - 30000 /\ s >= r) =>
                   streamStartTime = wallClock - 30000
            /\ r <= wallClock - 30000 => streamStartTime = r

\* a seek to T - 5 s from a stream start of T - 1 s has set T - 30 s
C1_Witness ==
    /\ pageOp.name = "handleVideoSeek"
    /\ pageOp.seekTime = wallClock - 5000
    /\ pageOp.prevStart = wallClock - 1000
    /\ streamStartTime = wallClock - 30000

\* C10: when the segment-selection effect has run for the current channel
\* with a stream start later than now - 3 s, the segment list is the one live
\* segment (the channel's URL, duration 0) and the play mode is live, for a
\* catchup-capable channel and for any other.
C10_LiveCollapse ==
    (/\ pageOp.name = "segmentEffect"
     /\ currentChannel # NoChannel
     /\ streamStartTime > wallClock - 3000) =>
        /\ playbackSegments = << [url |-> currentChannel.url, duration |-> 0] >>
        /\ playMode = "live"

\* the effect has collapsed a catchup session to live on a channel that has
\* no catchup source
C10_Witness ==
    /\ pageOp.name = "segmentEffect"
    /\ pageOp.prevMode = "catchup"
    /\ currentChannel # NoChannel
    /\ ~CatchupCapable(currentChannel)
    /\ streamStartTime > wallClock - 3000
    /\ playMode = "live"
    /\ playbackSegments = << [url |-> currentChannel.url, duration |-> 0] >>

\* the segment-selection effect has run past both of its early returns and
\* has called buildCatchupSegments
CatchupBuilt ==
    /\ pageOp.name = "segmentEffect"
    /\ currentChannel # NoChannel
    /\ ~(streamStartTime > wallClock - 3000)
    /\ CatchupCapable(currentChannel)

\* C11: whenever the controller builds catchup segments, the stream start it
\* passes is not later than the end boundary now - tailOffsetSeconds, every
\* segment built starts no later than it ends, and the segments are in time
\* order.
C11_StartNotAfterEnd ==
    CatchupBuilt =>
        /\ streamStartTime <= wallClock - catchupTailOffset * 1000
        /\ \A i \in 1..Len(playbackSegments) :
              playbackSegments[i].start <= playbackSegments[i].end
        /\ \A i, j \in 1..Len(playbackSegments) :
              i < j => playbackSegments[i].start <= playbackSegments[j].start

\* C12: when the segment-selection effect runs for a channel that lacks
\* catchup capability with a stream start outside the live threshold, an
\* error is signalled.
C12_FailsLoudly ==
    (/\ pageOp.name = "segmentEffect"
     /\ currentChannel # NoChannel
     /\ ~(streamStartTime > wallClock - 3000)
     /\ ~CatchupCapable(currentChannel)) =>
        error # Undefined

\* the step before was a prev/next navigation from a channel of a non-empty
\* catalog
SteppedFromCatalog ==
    /\ pageOp.name = "handleChannelNavigate"
    /\ pageOp.target.kind \in {"prev", "next"}
    /\ CatalogSize >= 1
    /\ pageOp.from # NoChannel
    /\ FindIndex(metadata.channels, pageOp.from) >= 0

\* C13: with the current channel at position i (from 0) of a catalog of
\* n >= 1 channels, next selects position (i + 1) mod n and prev selects
\* position (i - 1) mod n, and the channel selected is one of the catalog.
C13_Wraparound ==
    SteppedFromCatalog =>
        LET n == Len(metadata.channels)
            i == FindIndex(metadata.channels, pageOp.from)
            k == IF pageOp.target.kind = "next" THEN (i + 1) % n
                 ELSE (i + n - 1) % n
        IN  /\ pageOp.selected
            /\ currentChannel = metadata.channels[k + 1]
            /\ \E j \in 1..n : metadata.channels[j] = currentChannel

\* next from the last of three channels has selected the first
C13_Witness ==
    /\ SteppedFromCatalog
    /\ pageOp.target.kind = "next"
    /\ Len(metadata.channels) = 3
    /\ pageOp.from = metadata.channels[3]
    /\ currentChannel = metadata.channels[1]

\* C14: navigation to index k selects the k-th channel when 1 <= k <= n; to
\* an index outside 1..n, or on an empty or missing catalog, it leaves the
\* current channel, the stream start, the play mode and the segment list as
\* they are.
C14_IndexNavigation ==
    [][pageOp'.name = "handleChannelNavigate" =>
          /\ (pageOp'.target.kind = "index"
              /\ pageOp'.target.index \in 1..CatalogSize) =>
                 currentChannel' = metadata.channels[pageOp'.target.index]
          /\ (CatalogSize = 0
              \/ (pageOp'.target.kind = "index"
                  /\ pageOp'.target.index \notin 1..CatalogSize)) =>
                 UNCHANGED <<currentChannel, streamStartTime, playMode,
                             playbackSegments>>]_vars

\* index n + 1 was requested on a catalog of n >= 1 channels some time after
\* a channel was selected, and nothing was selected
C14_Witness ==
    /\ pageOp.name = "handleChannelNavigate"
    /\ pageOp.target.kind = "index"
    /\ CatalogSize >= 1
    /\ pageOp.target.index = CatalogSize + 1
    /\ currentChannel # NoChannel
    /\ streamStartTime < wallClock
    /\ ~pageOp.selected

-----------------------------------------------------------------------------
(* Properties of parseM3U *)

\* C15: every channel of the catalog parseM3U returns has a non-empty id, a
\* non-empty name and a non-empty group.
C15_NonEmptyIdentity ==
    plStage # "text" =>
        \A k \in 1..Len(plResult.channels) :
            /\ plResult.channels[k].id # Undefined
            /\ plResult.channels[k].name # Undefined
            /\ plResult.channels[k].group # Undefined

\* a channel was completed from a metadata line without tvg-id and without
\* group-title
C15_Witness ==
    /\ plStage = "parsed"
    /\ \E k \in 1..Len(plResult.channels) :
          /\ plResult.channels[k].tvgId = Undefined
          /\ plResult.channels[k].id = plResult.channels[k].name
          /\ plResult.channels[k].group = "Default"

\* C16: the text without a metadata line that no URL line follows (before
\* the next metadata line or the end) parses to the same result: channels,
\* groups and EPG URL.
C16_DiscardedLineNoEffect ==
    plStage = "cut" => plCutResult = plResult

\* C16 as it holds: the text without such a metadata line parses to the same
\* channels and the same EPG URL, and to the same groups except that the
\* group-title of the line, which the parser adds to the groups when it
\* reads the line, may be missing.
C16_DiscardedLineKeepsChannels ==
    plStage = "cut" =>
        /\ plCutResult.channels = plResult.channels
        /\ plCutResult.tvgUrl = plResult.tvgUrl
        /\ plCutResult.groups \subseteq plResult.groups
        /\ plResult.groups \ plCutResult.groups \subseteq {plText[plCut].group}

\* a metadata line with a tvg-id and a group-title that no URL line follows
\* was taken out in front of a metadata line that became a channel, and the
\* groups differ
C16_Witness ==
    /\ plStage = "cut"
    /\ plText[plCut].tvgId # Undefined
    /\ plText[plCut].group # Undefined
    /\ plResult.groups # plCutResult.groups
    /\ \E j \in (plCut + 1)..Len(plText) : Paired(plText, j)
    /\ Len(plResult.channels) >= 1

\* the URLs of the metadata lines from position i on that a URL line follows
\* before the next metadata line, each with the first such URL
RECURSIVE PairedUrlsFrom(_, _)
PairedUrlsFrom(text, i) ==
    IF i > Len(text) THEN <<>>
    ELSE (IF Paired(text, i)
          THEN << text[NextUrlOrMeta(text, i)].url >> ELSE <<>>)
         \o PairedUrlsFrom(text, i + 1)

\* C17: the channels are, in order of the text, one per metadata line that
\* a URL line follows before the next metadata line, with the first such URL;
\* no other URL line gives a channel.
C17_PairingAndOrder ==
    plStage # "text" =>
        [k \in 1..Len(plResult.channels) |-> plResult.channels[k].url]
            = PairedUrlsFrom(plText, 1)

\* C18: a metadata line followed by its URL line gives a channel; without a
\* title its name is "Channel <n>" and its id the tvg-id or else
\* "channel-<index>"; with a title its id is the tvg-id or else the title,
\* and its group is "Default" when there is no group-title.
C18_PositionalFallbacks ==
    plStage # "text" =>
        \A i \in 1..Len(plText) :
            Paired(plText, i) =>
                LET m == plText[i]
                    u == plText[NextUrlOrMeta(plText, i)].url
                IN  \E k \in 1..Len(plResult.channels) :
                        LET ch == plResult.channels[k] IN
                        /\ ch.url = u
                        /\ IF m.name = Undefined
                           THEN /\ ch.name = "Channel " \o ToString(k)
                                /\ ch.id = Or(m.tvgId,
                                              "channel-" \o ToString(k - 1))
                           ELSE /\ ch.name = m.name
                                /\ ch.id = Or(m.tvgId, m.name)
                                /\ ch.group = Or(m.group, "Default")

-----------------------------------------------------------------------------
(* Properties of parseEPG *)

\* adjacent entries a, b have a.start <= b.start
SortedByStart(list) ==
    \A i \in 1..(Len(list) - 1) : Le(list[i].start, list[i + 1].start)

\* C19: every channel's list in the index parseEPG returns is sorted
\* ascending by start, and so is a list merged with its fallback programs.
C19_SortedByStart ==
    /\ epStage # "doc" =>
           \A channelId \in DOMAIN epIndex : SortedByStart(epIndex[channelId])
    /\ epStage = "merged" => SortedByStart(epMerged)

\* C20: every entry of the index parseEPG returns, and every synthetic
\* entry, ends strictly after it starts.
C20_EndAfterStart ==
    /\ epStage # "doc" =>
           \A channelId \in DOMAIN epIndex :
               \A i \in 1..Len(epIndex[channelId]) :
                   Lt(epIndex[channelId][i].start, epIndex[channelId][i].end)
    /\ epStage = "merged" =>
           \A i \in 1..Len(epMerged) :
               IsSynthetic(epMerged[i]) =>
                   Lt(epMerged[i].start, epMerged[i].end)

\* a programme element with a channel, a start and a stop that parse
WellFormed(item) ==
    /\ item.channel # Undefined
    /\ item.start.present /\ item.start.instant # NaN
    /\ item.stop.present /\ item.stop.instant # NaN

\* C21: a programme element whose channel, start or stop is missing or
\* unparsable gives no entry: the index has no empty key, and every entry
\* stems from an element with all three attributes well formed.
C21_MalformedSkipped ==
    epStage # "doc" =>
        /\ Undefined \notin DOMAIN epIndex
        /\ \A channelId \in DOMAIN epIndex :
               \A i \in 1..Len(epIndex[channelId]) :
                   \E j \in 1..Len(epDoc) :
                       /\ WellFormed(epDoc[j])
                       /\ epDoc[j].channel = channelId
                       /\ epIndex[channelId][i]
                              = ProgramOfItem(epDoc[j], wallClock)


\* C26: the stream start is never later than the wall clock, whatever
\* channel selections, navigations and seeks (also to a time after now)
\* have been made
C26_StartNotInFuture ==
    streamStartTime <= wallClock

\* a seek to a time after now has just been handled
C26_Witness ==
    /\ pageOp.name = "handleVideoSeek"
    /\ pageOp.seekTime > wallClock
    /\ streamStartTime = wallClock

\* the segment-selection effect has run for the latest change of channel,
\* stream start or tail offset
SegmentsSettled ==
    /\ "segments" \notin pagePending
    /\ currentChannel # NoChannel

\* C27: once the segment-selection effect has run, play mode "catchup" means
\* the current channel has a catchup mode and a catchup source, and play mode
\* "live" means the segment list is the single segment of duration 0 with
\* the current channel's url
C27_ModeSegmentConsistency ==
    SegmentsSettled =>
        /\ playMode = "catchup" => CatchupCapable(currentChannel)
        /\ playMode = "live" =>
               playbackSegments =
                   << [url |-> currentChannel.url, duration |-> 0] >>

\* the effect has just returned without a change: the stream start is in
\* the past and the channel has no catchup
C27_Witness ==
    /\ pageOp.name = "segmentEffect"
    /\ SegmentsSettled
    /\ ~CatchupCapable(currentChannel)
    /\ streamStartTime <= wallClock - 3000
    /\ playMode = "live"


\* the instant currentVideoProgram resolves the program at
ResolutionInstant ==
    streamStartTime + currentVideoTime * 1000

\* a handler has just changed the stream start
StreamStartChanged ==
    \/ pageOp.name = "handleVideoSeek" /\ pageOp.prevStart # streamStartTime
    \/ pageOp.name = "selectChannel"
    \/ pageOp.name = "handleChannelNavigate" /\ pageOp.selected

\* C29: right after a seek, a channel selection or a navigation has changed
\* the stream start, the instant used to resolve the current program is the
\* new stream start: the elapsed time of the previous stream is not added
C29_TimelineRestart ==
    StreamStartChanged => ResolutionInstant = streamStartTime


\* C25: after a playlist load with a non-empty catalog a channel is selected:
\* the first channel whose id is the saved last-channel id when there is
\* one, the first channel of the catalog otherwise, also when the saved id
\* matches no channel (here for the App component's effect on [channels])
C25_InitialSelection ==
    (op = "initialChannelEffect" /\ Len(appChannels) > 0) =>
        playerState.currentChannel =
            ChannelToSelect(appChannels, lastChannelId)


\* no fetch, no EPG load and no effect is outstanding
LoadsSettled ==
    /\ loads = {}
    /\ pagePending = {}

\* a playlist has been parsed into metadata
CatalogActive == metadataFrom # NoLoad

\* C22: once the loads have settled the catalog and the EPG index stem from
\* the same loadPlaylist call, and an EPG result that has just been stored
\* belongs to the call whose catalog is active, not to a superseded one
C22_SnapshotConsistency ==
    /\ (LoadsSettled /\ CatalogActive) => epgFrom = metadataFrom.id
    /\ (CatalogActive /\ pageOp.name \in {"epgLoaded", "epgFailed"}) =>
           pageOp.id = metadataFrom.id

\* handleResetM3uUrl, or handleSaveM3uUrl with an empty address, has just run
\* while a custom address was stored
CustomUrlCleared ==
    /\ \/ pageOp.name = "handleResetM3uUrl"
       \/ pageOp.name = "handleSaveM3uUrl" /\ pageOp.temp = Undefined
    /\ pageOp.stored # Undefined

\* C23: after the custom address has been cleared the fetch the handler
\* starts goes to the default address, and when the loads have settled
\* without a failure while no custom address is stored, the active catalog
\* is the one fetched from the default address
C23_ResetUsesDefault ==
    /\ CustomUrlCleared =>
           \A l \in loads :
               (l.stage = "fetch" /\ l.id = loadCount) =>
                   l.url = "/playlist.m3u"
    /\ (LoadsSettled /\ CatalogActive /\ error = Undefined
            /\ customM3uUrl = Undefined) =>
           metadataFrom.url = "/playlist.m3u"

\* C28: the current channel is null or one of the channels of the active
\* catalog, after any playlist loads (with channels, without channels,
\* failed) and navigations
C28_CurrentChannelInCatalog ==
    currentChannel # NoChannel =>
        /\ metadata # NoMetadata
        /\ \E i \in 1..Len(metadata.channels) :
               metadata.channels[i] = currentChannel


\* the catalogs the playlist texts parse to
Catalogs == { parseM3U(text).channels : text \in PlaylistTexts }

\* loadPlaylist call n has just parsed its playlist to these channels
Parsed(n, channels) ==
    /\ pageOp.name = "playlistLoaded"
    /\ pageOp.id = n
    /\ pageOp.channels = channels

\* setEpgData has just been called: by the then or the catch of loadEPG, or by
\* loadPlaylist itself for a playlist without EPG address
EpgStored ==
    \/ pageOp.name \in {"epgLoaded", "epgFailed"}
    \/ pageOp.name = "playlistLoaded" /\ pageOp.tvgUrl = Undefined

\* ... by call n, for these channels
StoredFor(n, channels) ==
    /\ EpgStored
    /\ pageOp.id = n
    /\ pageOp.channels = channels
    /\ epgFrom = n

\* the index stored is gap-filled for the channels of the call: from a
\* loaded index after a successful EPG load, from the empty index otherwise
GapFilled ==
    IF pageOp.name = "epgLoaded"
    THEN \E xml \in EpgDocs :
            epgData = fillEPGGaps(loadEPG(xml, ValidChannelIds(pageOp.channels),
                                          wallClock),
                                  pageOp.channels, wallClock)
    ELSE epgData = fillEPGGaps(<<>>, pageOp.channels, wallClock)

\* C24: after every playlist load that parses, the EPG index is eventually
\* replaced by a gap-filled index built for the channels just parsed: from
\* the loaded index when the EPG load succeeds, from an empty index when it
\* fails or when the playlist has no EPG address
C24_EpgEventuallyReplaced ==
    /\ [](EpgStored => GapFilled)
    /\ \A n \in 1..MaxLoads : \A channels \in Catalogs :
          Parsed(n, channels) ~> StoredFor(n, channels)

\* the EPG load of a reload has failed and the index was filled from the
\* empty index, while the EPG load of an earlier call is still in flight
C24_Witness ==
    /\ pageOp.name = "epgFailed"
    /\ pageOp.id > 1
    /\ epgFrom = pageOp.id
    /\ GapFilled
    /\ \E l \in loads : l.stage = "epg" /\ l.id < pageOp.id

====
